---------------------------- MODULE Spec2Model ----------------------------
(***************************************************************************)
(* FlexiSheet: the cell edit controller of the SheetTable component        *)
(* (src/src/components/sheet-table/index.tsx, lines 1-416) together with   *)
(* the helpers of components/sheet-table/utils.ts (src/unnamed/part_003,   *)
(* lines 295-405).                                                         *)
(*                                                                         *)
(* Conventions.                                                            *)
(*  - A text (textContent, clipboard text) is a sequence of one-character  *)
(*    strings, so that trim, parseFloat and the paste pattern are computed *)
(*    character by character.                                              *)
(*  - A JavaScript value is a record [type, num, scale, str]: undefined,   *)
(*    a number num / 10^scale, or a string (a text).                       *)
(*  - An optional property (T | undefined, T | null) is a sequence of      *)
(*    length 0 or 1.                                                       *)
(*  - A JavaScript object used as a dictionary is a function whose DOMAIN  *)
(*    is the set of keys present.                                          *)
(***************************************************************************)
EXTENDS Integers, Sequences, FiniteSets, TLC

VARIABLES
    data,                \* prop: the host's rows, in order
    disabledRows,        \* prop: number[] | Record<string, number[]>
    disabledColumns,     \* prop: string[]
    onEdit,              \* prop: is the onEdit callback supplied?
    cellErrors,          \* useState: groupKey -> rowId -> colKey -> message | null
    cellOriginalContent, \* useState: groupKey -> rowId -> colKey -> text
    focus,               \* the cell that holds the browser focus (0 or 1 cells)
    text,                \* textContent of the focused cell
    last,                \* the event handled last
    calls,               \* the onEdit invocations made by the handler that ran last
    probe                \* a helper applied on its own, or the state of the host page

vars == <<data, disabledRows, disabledColumns, onEdit, cellErrors, cellOriginalContent,
          focus, text, last, calls, probe>>

-----------------------------------------------------------------------------
(* Bounds of the model *)

\* number of cells whose original content may be captured in one behaviour
MaxTouched == 2

\* longest text handed to a helper applied on its own
MaxLen == 3

\* largest row index handed to isRowDisabled on its own
MaxIndex == 2

\* number of rows the host page creates in one behaviour
MaxCreated == 2

\* the host page removes rows while fewer than this many rows are gone
MaxRemoved == 2

\* rows of the data given to the grouping on its own
MaxRows == 3

-----------------------------------------------------------------------------
(* Texts *)

Digits == {"0", "1", "2", "3", "4", "5", "6", "7", "8", "9"}

\* characters the model types: two digits, minus, point, blank, a letter
Chars == {"0", "5", "-", ".", " ", "a"}

RECURSIVE TextsOfLen(_)
TextsOfLen(n) ==
    IF n = 0 THEN {<<>>}
    ELSE {Append(s, c) : s \in TextsOfLen(n - 1), c \in Chars}

RECURSIVE TextsUpTo(_)
TextsUpTo(n) == IF n = 0 THEN TextsOfLen(0) ELSE TextsOfLen(n) \cup TextsUpTo(n - 1)

\* what the user leaves in a cell of the grid
Texts == { <<>>, <<" ">>, <<"5">>, <<"-", "5">>, <<"a">>, <<"5", "-">> }

\* what a cell shows when the focus enters it
FocusTexts == { <<>>, <<"5">> }

DigitValue(c) ==
    CASE c = "0" -> 0 [] c = "1" -> 1 [] c = "2" -> 2 [] c = "3" -> 3
      [] c = "4" -> 4 [] c = "5" -> 5 [] c = "6" -> 6 [] c = "7" -> 7
      [] c = "8" -> 8 [] c = "9" -> 9

\* String.prototype.trim(): strip white space at both ends
RECURSIVE TrimStart(_)
TrimStart(s) ==
    IF s # <<>> /\ Head(s) = " " THEN TrimStart(Tail(s)) ELSE s

RECURSIVE TrimEnd(_)
TrimEnd(s) ==
    IF s # <<>> /\ s[Len(s)] = " " THEN TrimEnd(SubSeq(s, 1, Len(s) - 1)) ELSE s

trim(s) == TrimEnd(TrimStart(s))

\* length of the longest prefix of s made of decimal digits
RECURSIVE DigitRun(_)
DigitRun(s) ==
    IF s # <<>> /\ Head(s) \in Digits THEN 1 + DigitRun(Tail(s)) ELSE 0

\* the natural number written by a sequence of digits (0 for no digit)
RECURSIVE DigitsValue(_)
DigitsValue(s) ==
    IF s = <<>> THEN 0
    ELSE 10 * DigitsValue(SubSeq(s, 1, Len(s) - 1)) + DigitValue(s[Len(s)])

RECURSIVE Pow10(_)
Pow10(n) == IF n = 0 THEN 1 ELSE 10 * Pow10(n - 1)

-----------------------------------------------------------------------------
(* JavaScript values *)

Undefined == [type |-> "undefined", num |-> 0, scale |-> 0, str |-> <<>>]

JSString_Trimmed(s) == [type |-> "string", num |-> 0, scale |-> 0, str |-> trim(s)]

JSString(s) == [type |-> "string", num |-> 0, scale |-> 0, str |-> s]

\* the number n / 10^k, written without trailing zeros in the fraction
RECURSIVE JSNumber(_, _)
JSNumber(n, k) ==
    IF k > 0 /\ n % 10 = 0 THEN JSNumber(n \div 10, k - 1)
    ELSE [type |-> "number", num |-> n, scale |-> k, str |-> <<>>]

NaN == [type |-> "nan", num |-> 0, scale |-> 0, str |-> <<>>]

(***************************************************************************)
(* parseFloat(string): skip leading white space, read an optional sign,    *)
(* then the longest prefix that is a decimal literal (digits, an optional  *)
(* point, digits; at least one digit); what follows the prefix is ignored. *)
(* No prefix: NaN.  (Exponents and "Infinity" need characters that are not *)
(* in Chars.)                                                              *)
(***************************************************************************)
parseFloat(s) ==
    LET t    == TrimStart(s)
        neg  == t # <<>> /\ Head(t) = "-"
        u    == IF t # <<>> /\ Head(t) \in {"-", "+"} THEN Tail(t) ELSE t
        ni   == DigitRun(u)
        v    == SubSeq(u, ni + 1, Len(u))
        nf   == IF v # <<>> /\ Head(v) = "." THEN DigitRun(Tail(v)) ELSE 0
        mant == DigitsValue(SubSeq(u, 1, ni) \o SubSeq(v, 2, nf + 1))
    IN  IF ni + nf = 0 THEN NaN
        ELSE JSNumber(IF neg THEN 0 - mant ELSE mant, nf)

-----------------------------------------------------------------------------
(* Zod schemas (validationSchema of a column) *)

\* z.number() / z.string() / z.optional(): _def.typeName, the checks in the
\* order they were chained, the custom messages for a wrong type, the wrapped
\* schema of ZodOptional
Check(kind, value, message) == [kind |-> kind, value |-> value, message |-> message]

ZodString(checks) ==
    [typeName |-> "ZodString", checks |-> checks, required_error |-> <<>>,
     invalid_type_error |-> <<>>, innerType |-> <<>>]

ZodNumber(checks, required_error, invalid_type_error) ==
    [typeName |-> "ZodNumber", checks |-> checks, required_error |-> required_error,
     invalid_type_error |-> invalid_type_error, innerType |-> <<>>]

ZodOptional(inner) ==
    [typeName |-> "ZodOptional", checks |-> <<>>, required_error |-> <<>>,
     invalid_type_error |-> <<>>, innerType |-> <<inner>>]

RateMax == 10000

materialNameSchema == ZodString(<<Check("min", 1, "Material name cannot be empty.")>>)

cftSchema == ZodOptional(ZodNumber(<<Check("min", 0, "CFT cannot be negative.")>>, <<>>, <<>>))

rateSchema ==
    ZodNumber(<<Check("min", 0, "Rate cannot be negative."),
                Check("max", RateMax, "Rate cannot exceed 10000.")>>, <<>>, <<>>)

amountSchema == ZodNumber(<<Check("min", 0, "Amount cannot be negative.")>>, <<>>, <<>>)

\* a host's own validator: z.number({ required_error: "", invalid_type_error: "" })
quantitySchema == ZodNumber(<<>>, <<"">>, <<"">>)

\* a host's own validator with two checks that one value can fail together:
\* z.number().int("Count must be a whole number.").min(0, "Count cannot be negative.")
countSchema ==
    ZodNumber(<<Check("int", 0, "Count must be a whole number."),
                Check("min", 0, "Count cannot be negative.")>>, <<>>, <<>>)

\* the message of the invalid_type issue for a value that is not of the
\* schema's primitive type
InvalidTypeMessage(schema, value, expected) ==
    IF value.type = "undefined"
    THEN IF schema.required_error # <<>> THEN schema.required_error[1] ELSE "Required"
    ELSE IF schema.invalid_type_error # <<>> THEN schema.invalid_type_error[1]
    ELSE IF expected = "number" /\ value.type = "string"
         THEN "Expected number, received string"
    ELSE IF expected = "number" THEN "Expected number, received nan"
    ELSE IF value.type = "number" THEN "Expected string, received number"
    ELSE "Expected string, received nan"

\* does value violate the check?  (value is of the schema's type)
CheckFails(check, value) ==
    CASE value.type = "number" /\ check.kind = "min" ->
             value.num < check.value * Pow10(value.scale)
      [] value.type = "number" /\ check.kind = "max" ->
             value.num > check.value * Pow10(value.scale)
      [] value.type = "number" /\ check.kind = "int" -> value.scale > 0
      [] value.type = "string" /\ check.kind = "min" -> Len(value.str) < check.value
      [] value.type = "string" /\ check.kind = "max" -> Len(value.str) > check.value

\* the messages of the issues of the failed checks, in the order of the checks
RECURSIVE CheckIssues(_, _)
CheckIssues(checks, value) ==
    IF checks = <<>> THEN <<>>
    ELSE (IF CheckFails(Head(checks), value) THEN <<Head(checks).message>> ELSE <<>>)
         \o CheckIssues(Tail(checks), value)

\* ZodNumber / ZodString: a value of another type gives the single
\* invalid_type issue; otherwise every check is applied
PrimitiveIssues(schema, value) ==
    LET expected == IF schema.typeName = "ZodNumber" THEN "number" ELSE "string"
    IN  IF value.type # expected
        THEN <<InvalidTypeMessage(schema, value, expected)>>
        ELSE CheckIssues(schema.checks, value)

\* schema.safeParse(value): result.error.issues as the sequence of their
\* messages; result.success iff the sequence is empty
safeParse(schema, value) ==
    IF schema.typeName = "ZodOptional"
    THEN IF value.type = "undefined" THEN <<>>
         ELSE PrimitiveIssues(schema.innerType[1], value)
    ELSE PrimitiveIssues(schema, value)

-----------------------------------------------------------------------------
(* components/sheet-table/utils.ts *)

\* ExtendedColumnDef: id?, accessorKey?, validationSchema?
ColumnDef(id, accessorKey, validationSchema) ==
    [id |-> id, accessorKey |-> accessorKey, validationSchema |-> validationSchema]

\* colDef.id ?? colDef.accessorKey ?? ""
getColumnKey_AccessorFirst(colDef) ==
    IF colDef.accessorKey # <<>> THEN colDef.accessorKey[1]
    ELSE IF colDef.id # <<>> THEN colDef.id[1]
    ELSE ""

\* colDef.id ?? colDef.accessorKey ?? "": <<>> is undefined
getColumnKey(colDef) ==
    IF colDef.id # <<>> THEN colDef.id[1]
    ELSE IF colDef.accessorKey # <<>> THEN colDef.accessorKey[1]
    ELSE ""

\* (schema as any)?._def?.typeName
schemaType(colDef) == colDef.validationSchema[1].typeName

\* the coercion of parseAndValidate for a ZodNumber column
CoerceNumber(rawValue) ==
    IF trim(rawValue) = <<>> THEN Undefined
    ELSE LET maybeNum == parseFloat(rawValue)
         IN  IF maybeNum.type = "nan" THEN JSString(rawValue) ELSE maybeNum

IssueMessage_Last(issues) == issues[Len(issues)]

\* result.error.issues[0].message
IssueMessage(issues) == issues[1]

\* errorMessage: <<>> is null, <<m>> is the message m
parseAndValidate(rawValue, colDef) ==
    IF colDef.validationSchema = <<>>
    THEN [parsedValue |-> JSString(rawValue), errorMessage |-> <<>>]
    ELSE LET schema      == colDef.validationSchema[1]
             parsedValue == IF schemaType(colDef) = "ZodNumber"
                            THEN CoerceNumber(rawValue)
                            ELSE JSString(rawValue)
             issues      == safeParse(schema, parsedValue)
         IN  [parsedValue  |-> parsedValue,
              errorMessage |-> IF issues # <<>> THEN <<IssueMessage(issues)>> ELSE <<>>]

allowedKeys ==
    {"Backspace", "Delete", "ArrowLeft", "ArrowRight", "Tab", "Home", "End", ".", "-"}

\* /^[0-9]$/.test(e.key)
isDigit(key) == key \in Digits

handleKeyDown_AnyValidator(key, colDef) ==
    colDef.validationSchema # <<>> /\ key \notin allowedKeys /\ ~isDigit(key)

\* handleKeyDown(e, colDef): TRUE iff e.preventDefault() is called
handleKeyDown(key, colDef) ==
    IF colDef.validationSchema = <<>> THEN FALSE
    ELSE IF schemaType(colDef) = "ZodNumber"
         THEN key \notin allowedKeys /\ ~isDigit(key)
         ELSE FALSE

\* /^-?\d*\.?\d*$/.test(text)
MatchesFloatPattern(clip) ==
    LET a == IF clip # <<>> /\ Head(clip) = "-" THEN Tail(clip) ELSE clip
        b == SubSeq(a, DigitRun(a) + 1, Len(a))
        c == IF b # <<>> /\ Head(b) = "." THEN Tail(b) ELSE b
        d == SubSeq(c, DigitRun(c) + 1, Len(c))
    IN  d = <<>>

\* handlePaste(e, colDef): TRUE iff e.preventDefault() is called
handlePaste(clip, colDef) ==
    IF colDef.validationSchema = <<>> THEN FALSE
    ELSE IF schemaType(colDef) = "ZodNumber"
         THEN ~MatchesFloatPattern(clip)
         ELSE FALSE

\* disabledRows: undefined, number[] or Record<string, number[]>
RowsUndefined == [kind |-> "undefined", list |-> {}, map |-> [g \in {} |-> {}]]
RowsArray(list) == [kind |-> "array", list |-> list, map |-> [g \in {} |-> {}]]
RowsRecord(map) == [kind |-> "record", list |-> {}, map |-> map]

isRowDisabled_AnyGroup(rows, groupKey, rowIndex) ==
    IF rows.kind = "undefined" THEN FALSE
    ELSE IF rows.kind = "array" THEN rowIndex \in rows.list
    ELSE \E g \in DOMAIN rows.map : rowIndex \in rows.map[g]

isRowDisabled(rows, groupKey, rowIndex) ==
    IF rows.kind = "undefined" THEN FALSE
    ELSE IF rows.kind = "array" THEN rowIndex \in rows.list
    ELSE IF groupKey \in DOMAIN rows.map THEN rowIndex \in rows.map[groupKey]
    ELSE FALSE

-----------------------------------------------------------------------------
(* The host's props *)

\* a row of data: an object (ref is its identity), the host's id field and
\* the optional headerKey
Row(ref, id, headerKey) == [ref |-> ref, id |-> id, headerKey |-> headerKey]

initialData ==
    << Row(1, "1", <<"Group A">>),
       Row(2, "2", <<"Group B">>) >>

columns ==
    << ColumnDef(<<>>, <<"materialName">>, <<materialNameSchema>>),
       ColumnDef(<<>>, <<"cft">>, <<cftSchema>>),
       ColumnDef(<<>>, <<"rate">>, <<rateSchema>>),
       ColumnDef(<<>>, <<"quantity">>, <<quantitySchema>>),
       ColumnDef(<<>>, <<"remarks">>, <<>>) >>

\* the props a host passes: disabledRows, disabledColumns, onEdit (supplied or not)
Props ==
    { [disabledRows |-> RowsArray({}), disabledColumns |-> {}, onEdit |-> TRUE],
      [disabledRows |-> RowsArray({1}), disabledColumns |-> {"rate"}, onEdit |-> TRUE],
      [disabledRows |-> RowsRecord([g \in {"Group A", "Group B"} |->
                                      IF g = "Group A" THEN {0} ELSE {1}]),
       disabledColumns |-> {}, onEdit |-> TRUE],
      [disabledRows |-> RowsArray({}), disabledColumns |-> {}, onEdit |-> FALSE] }

-----------------------------------------------------------------------------
(* sheet-table/index.tsx *)

\* String(index), the id TanStack gives a top-level row when the table
\* options carry no getRowId
IndexToString(i) ==
    CASE i = 0 -> "0" [] i = 1 -> "1" [] i = 2 -> "2" [] i = 3 -> "3" [] i = 4 -> "4"
      [] i = 5 -> "5" [] i = 6 -> "6" [] i = 7 -> "7" [] i = 8 -> "8" [] i = 9 -> "9"

\* table.getRowModel().rows for useReactTable({ data, columns, getCoreRowModel })
getRowModel(d) ==
    [i \in 1..Len(d) |-> [id |-> IndexToString(i - 1), index |-> i - 1, original |-> d[i]]]

findTableRow_First(d, rowData) ==
    IF d = <<>> THEN <<>> ELSE <<getRowModel(d)[1]>>

\* rows.find((r) => r.original === rowData): <<>> is undefined
findTableRow(d, rowData) ==
    LET rows == getRowModel(d)
        hits == {i \in 1..Len(rows) : rows[i].original.ref = rowData.ref}
    IN  IF hits = {} THEN <<>>
        ELSE <<rows[CHOOSE i \in hits : \A j \in hits : i <= j]>>

\* row.headerKey || "ungrouped"
groupOf(row) ==
    IF row.headerKey # <<>> /\ row.headerKey[1] # "" THEN row.headerKey[1] ELSE "ungrouped"

\* data.reduce(...): groupKey -> the rows of the group, in data order
RECURSIVE groupedData(_)
\* the names every object inherits from Object.prototype: acc[name] is
\* truthy for the empty accumulator {} and is not an array
ObjectPrototypeKeys ==
    {"constructor", "__proto__", "hasOwnProperty", "isPrototypeOf",
     "propertyIsEnumerable", "toLocaleString", "toString", "valueOf",
     "__defineGetter__", "__defineSetter__", "__lookupGetter__", "__lookupSetter__"}

\* the reduce throws a TypeError: for a group named like an inherited member
\* !acc[group] is false, no array is created, and acc[group].push is not a
\* function
groupedDataThrows(d) ==
    \E i \in 1..Len(d) : groupOf(d[i]) \in ObjectPrototypeKeys

groupedData(d) ==
    IF d = <<>> THEN [g \in {} |-> <<>>]
    ELSE LET acc   == groupedData(SubSeq(d, 1, Len(d) - 1))
             row   == d[Len(d)]
             group == groupOf(row)
         IN  [g \in DOMAIN acc \cup {group} |->
                 IF g = group
                 THEN (IF g \in DOMAIN acc THEN acc[g] ELSE <<>>) \o <<row>>
                 ELSE acc[g]]

\* prev[k] || {}
OrEmpty(obj, k) == IF k \in DOMAIN obj THEN obj[k] ELSE [x \in {} |-> x]

\* { ...obj, [k]: v }
Spread(obj, k, v) == [x \in DOMAIN obj \cup {k} |-> IF x = k THEN v ELSE obj[x]]

SetCell_GroupReplaced(prev, groupKey, rowId, colKey, value) ==
    Spread(prev, groupKey, Spread([x \in {} |-> x], rowId, Spread([x \in {} |-> x], colKey, value)))

\* the updater passed to setCellErrors / setCellOriginalContent
SetCell(prev, groupKey, rowId, colKey, value) ==
    LET groupContent == OrEmpty(prev, groupKey)
        rowContent   == Spread(OrEmpty(groupContent, rowId), colKey, value)
    IN  Spread(prev, groupKey, Spread(groupContent, rowId, rowContent))

\* state[groupKey]?.[rowId]?.[colKey]: <<>> is undefined
GetCell(state, groupKey, rowId, colKey) ==
    IF groupKey \in DOMAIN state
    THEN IF rowId \in DOMAIN state[groupKey]
         THEN IF colKey \in DOMAIN state[groupKey][rowId]
              THEN <<state[groupKey][rowId][colKey]>>
              ELSE <<>>
         ELSE <<>>
    ELSE <<>>

isDisabled_RowsOnly(groupKey, rowIndex, colKey) ==
    isRowDisabled(disabledRows, groupKey, rowIndex)

\* the guard of handleCellInput and handleCellBlur:
\* isRowDisabled(disabledRows, groupKey, rowIndex) || disabledColumns.includes(colKey)
isDisabled(groupKey, rowIndex, colKey) ==
    isRowDisabled(disabledRows, groupKey, rowIndex) \/ colKey \in disabledColumns

\* a JavaScript string is truthy iff it is not null and not empty
Truthy(errorMessage) == errorMessage # <<>> /\ errorMessage[1] # ""

\* the event handled: the handler, the cell it was wired to, the text read
\* (textContent, or the clipboard text for a paste), the key and modifier of
\* a keydown, and whether the handler called e.preventDefault()
Event(op, groupKey, rowData, col, t, key, mod, prevented) ==
    [op |-> op, groupKey |-> groupKey, rowData |-> rowData, col |-> col, text |-> t,
     key |-> key, mod |-> mod, prevented |-> prevented]

NoEvent == Event("none", "", Row(0, "", <<>>), 0, <<>>, "", "none", FALSE)

\* the cells the component renders for the data d: for every group of
\* groupedData, every row of the group, every column
CellsOf(d) ==
    LET grouped == groupedData(d)
    IN  UNION {{[groupKey |-> g, rowData |-> grouped[g][i], col |-> c] :
                   i \in 1..Len(grouped[g]), c \in 1..Len(columns)} :
               g \in DOMAIN grouped}

\* the cells of the current render
Cells == CellsOf(data)

-----------------------------------------------------------------------------
(* The handlers *)

handleCellFocus_NoCapture(groupKey, rowData, col, textContent) ==
    calls' = <<>> /\ UNCHANGED <<cellErrors, cellOriginalContent>>

\* onFocus={(e) => handleCellFocus(e, groupKey, rowData, colDef)}
handleCellFocus(groupKey, rowData, col, textContent) ==
    LET tanStackRow == findTableRow(data, rowData)
        colKey      == getColumnKey(columns[col])
    IN  /\ cellOriginalContent' =
               IF tanStackRow = <<>> THEN cellOriginalContent
               ELSE SetCell(cellOriginalContent, groupKey, tanStackRow[1].id, colKey,
                            textContent)
        /\ calls' = <<>>
        /\ UNCHANGED cellErrors

handleCellInput_Skipped(groupKey, rowData, col, textContent) ==
    calls' = <<>> /\ UNCHANGED <<cellErrors, cellOriginalContent>>

\* onInput={(e) => handleCellInput(e, groupKey, rowData, colDef)}
handleCellInput(groupKey, rowData, col, textContent) ==
    LET tanStackRow == findTableRow(data, rowData)
        colDef      == columns[col]
        colKey      == getColumnKey(colDef)
    IN  /\ cellErrors' =
               IF tanStackRow = <<>> THEN cellErrors
               ELSE IF isDisabled(groupKey, tanStackRow[1].index, colKey) THEN cellErrors
               ELSE SetCell(cellErrors, groupKey, tanStackRow[1].id, colKey,
                            parseAndValidate(textContent, colDef).errorMessage)
        /\ calls' = <<>>
        /\ UNCHANGED cellOriginalContent

\* onEdit(tanStackRow.index, colKey, parsedValue)
EditCall(tanStackRow, colKey, parsedValue) ==
    [rowArg |-> JSNumber(tanStackRow.index, 0), columnId |-> colKey, value |-> parsedValue]

EditCalls_Dropped(errorMessage, tanStackRow, colKey, parsedValue) == <<>>

EditCalls_BlockedByErrors(errorMessage, tanStackRow, colKey, parsedValue) ==
    IF Truthy(errorMessage) THEN <<>>
    ELSE IF \E g \in DOMAIN cellErrors : \E r \in DOMAIN cellErrors[g] :
               \E c \in DOMAIN cellErrors[g][r] : cellErrors[g][r][c] # <<>>
         THEN <<>>
    ELSE IF onEdit THEN <<EditCall(tanStackRow, colKey, parsedValue)>>
    ELSE <<>>

\* if (errorMessage) { console.error(...) } else if (onEdit) { onEdit(...) }
EditCalls(errorMessage, tanStackRow, colKey, parsedValue) ==
    IF Truthy(errorMessage) THEN <<>>
    ELSE IF onEdit THEN <<EditCall(tanStackRow, colKey, parsedValue)>>
    ELSE <<>>

nothingChanged_Never(rawValue, originalValue) == FALSE

\* rawValue === originalValue
nothingChanged(rawValue, originalValue) == rawValue = originalValue

\* onBlur={(e) => handleCellBlur(e, groupKey, rowData, colDef)}
handleCellBlur(groupKey, rowData, col, textContent) ==
    LET tanStackRow == findTableRow(data, rowData)
        colDef      == columns[col]
        colKey      == getColumnKey(colDef)
    IN  IF tanStackRow = <<>>
        THEN calls' = <<>> /\ UNCHANGED <<cellErrors, cellOriginalContent>>
        ELSE LET rowId         == tanStackRow[1].id
                 rowIndex      == tanStackRow[1].index
                 stored        == GetCell(cellOriginalContent, groupKey, rowId, colKey)
                 originalValue == IF stored = <<>> THEN <<>> ELSE stored[1]
                 result        == parseAndValidate(textContent, colDef)
             IN  IF \/ isDisabled(groupKey, rowIndex, colKey)
                    \/ nothingChanged(textContent, originalValue)
                 THEN calls' = <<>> /\ UNCHANGED <<cellErrors, cellOriginalContent>>
                 ELSE /\ cellErrors' = SetCell(cellErrors, groupKey, rowId, colKey,
                                               result.errorMessage)
                      /\ calls' = EditCalls(result.errorMessage, tanStackRow[1], colKey,
                                            result.parsedValue)
                      /\ UNCHANGED cellOriginalContent

\* const disabled = isRowDisabled(disabledRows, groupKey, rowIndex) of the
\* rendered row, rowIndex being tanStackRow.index
rowDisabled(groupKey, rowData) ==
    LET tanStackRow == findTableRow(data, rowData)
    IN  tanStackRow # <<>>
        /\ isRowDisabled(disabledRows, groupKey, tanStackRow[1].index)

\* contentEditable={!isDisabled} of the rendered cell
contentEditable(groupKey, rowData, col) ==
    LET tanStackRow == findTableRow(data, rowData)
        disabled    == isRowDisabled(disabledRows, groupKey, tanStackRow[1].index)
    IN  tanStackRow # <<>>
        /\ ~(disabled \/ getColumnKey(columns[col]) \in disabledColumns)

\* e.key.toLowerCase(), for the keys of the model
toLowerCase(key) ==
    CASE key = "V" -> "v" [] key = "A" -> "a" [] key = "C" -> "c" [] key = "X" -> "x"
      [] key = "Z" -> "z" [] OTHER -> key

onKeyDown_Filtered(key, mod, col) == handleKeyDown(key, columns[col])

\* the onKeyDown arrow function of the cell: TRUE iff preventDefault is called
onKeyDown(key, mod, col) ==
    IF mod \in {"ctrl", "meta"} /\ toLowerCase(key) \in {"a", "c", "x", "z", "v"}
    THEN FALSE
    ELSE handleKeyDown(key, columns[col])

\* onPaste={(e) => handlePaste(e, colDef)}
onPaste(clip, col) == handlePaste(clip, columns[col])

-----------------------------------------------------------------------------
(* The events of the browser *)

Keys == {"5", "-", ".", "a", "V", "x", "Z", "Tab", "Enter", "ArrowLeft", "ArrowUp"}

Mods == {"none", "ctrl", "meta"}

ClipTexts == {<<"5">>, <<"5", "-">>, <<"a">>, <<"-", ".">>, <<"5", ".", ".">>}

\* the cells whose original content has been captured
Touched ==
    UNION {UNION {{<<g, r, c>> : c \in DOMAIN cellOriginalContent[g][r]} :
                  r \in DOMAIN cellOriginalContent[g]} :
           g \in DOMAIN cellOriginalContent}

CellKey(cell) ==
    <<cell.groupKey, IndexToString(findTableRow(data, cell.rowData)[1].index),
      getColumnKey(columns[cell.col])>>

Init ==
    /\ data = initialData
    /\ \E p \in Props :
          /\ disabledRows = p.disabledRows
          /\ disabledColumns = p.disabledColumns
          /\ onEdit = p.onEdit
    /\ cellErrors = [x \in {} |-> x]
    /\ cellOriginalContent = [x \in {} |-> x]
    /\ focus = <<>>
    /\ text = <<>>
    /\ last = NoEvent
    /\ calls = <<>>
    /\ probe = <<>>

\* the user moves the focus into a cell that shows the text t; at most
\* limit cells are ever focused
FocusWithin(limit) ==
    /\ focus = <<>>
    /\ \E cell \in Cells, t \in FocusTexts :
          /\ CellKey(cell) \in Touched \/ Cardinality(Touched) < limit
          /\ focus' = <<cell>>
          /\ text' = t
          /\ handleCellFocus(cell.groupKey, cell.rowData, cell.col, t)
          /\ last' = Event("focus", cell.groupKey, cell.rowData, cell.col, t, "", "none", FALSE)
    /\ UNCHANGED <<data, disabledRows, disabledColumns, onEdit, probe>>

\* the content of the focused cell becomes t
Input ==
    /\ focus # <<>>
    /\ \E t \in Texts :
          LET cell == focus[1]
          IN  /\ text' = t
              /\ handleCellInput(cell.groupKey, cell.rowData, cell.col, t)
              /\ last' = Event("input", cell.groupKey, cell.rowData, cell.col, t, "", "none", FALSE)
    /\ UNCHANGED <<data, disabledRows, disabledColumns, onEdit, focus, probe>>

Blur_WritesRecord ==
    /\ focus # <<>>
    /\ LET cell == focus[1]
       IN  /\ handleCellBlur(cell.groupKey, cell.rowData, cell.col, text)
           /\ last' = Event("blur", cell.groupKey, cell.rowData, cell.col, text, "", "none", FALSE)
           /\ data' = [i \in DOMAIN data |->
                          IF data[i] = cell.rowData /\ calls' # <<>>
                          THEN [data[i] EXCEPT !.id = "edited"]
                          ELSE data[i]]
    /\ focus' = <<>>
    /\ UNCHANGED <<disabledRows, disabledColumns, onEdit, text, probe>>

\* the focus leaves the cell
Blur ==
    /\ focus # <<>>
    /\ LET cell == focus[1]
       IN  /\ handleCellBlur(cell.groupKey, cell.rowData, cell.col, text)
           /\ last' = Event("blur", cell.groupKey, cell.rowData, cell.col, text, "", "none", FALSE)
    /\ focus' = <<>>
    /\ UNCHANGED <<data, disabledRows, disabledColumns, onEdit, text, probe>>

\* a key goes down in the focused cell
KeyDown ==
    /\ focus # <<>>
    /\ \E key \in Keys, mod \in Mods :
          LET cell == focus[1]
          IN  last' = Event("keydown", cell.groupKey, cell.rowData, cell.col, text, key, mod,
                            onKeyDown(key, mod, cell.col))
    /\ calls' = <<>>
    /\ UNCHANGED <<data, disabledRows, disabledColumns, onEdit, cellErrors,
                   cellOriginalContent, focus, text, probe>>

Paste_Recorded ==
    /\ focus # <<>>
    /\ \E clip \in ClipTexts :
          LET cell == focus[1]
          IN  /\ last' = Event("paste", cell.groupKey, cell.rowData, cell.col, clip, "", "none",
                               onPaste(clip, cell.col))
              /\ cellErrors' =
                     IF onPaste(clip, cell.col)
                     THEN SetCell(cellErrors, cell.groupKey,
                                  IndexToString(findTableRow(data, cell.rowData)[1].index),
                                  getColumnKey(columns[cell.col]), <<"Invalid paste">>)
                     ELSE cellErrors
    /\ calls' = <<>>
    /\ UNCHANGED <<data, disabledRows, disabledColumns, onEdit, cellOriginalContent, focus,
                   text, probe>>

\* the user pastes the clipboard text clip into the focused cell
Paste ==
    /\ focus # <<>>
    /\ \E clip \in ClipTexts :
          LET cell == focus[1]
          IN  last' = Event("paste", cell.groupKey, cell.rowData, cell.col, clip, "", "none",
                            onPaste(clip, cell.col))
    /\ calls' = <<>>
    /\ UNCHANGED <<data, disabledRows, disabledColumns, onEdit, cellErrors,
                   cellOriginalContent, focus, text, probe>>

Focus == FocusWithin(MaxTouched)

Next == Focus \/ Input \/ Blur

\* the edit sessions of the grid: focus, input and blur
Spec == Init /\ [][Next]_vars

FocusOne == FocusWithin(1)

NextKeys == FocusOne \/ Input \/ Blur \/ KeyDown \/ Paste

\* the edit sessions of one cell, with its keydown and paste events
SpecKeys == Init /\ [][NextKeys]_vars

-----------------------------------------------------------------------------
(* The host supplies other data while cells are edited *)

\* the values of the data prop: the records of initialData, in any order,
\* with or without some of them removed
DataOptions ==
    {<<>>}
        \cup {<<initialData[i]>> : i \in 1..Len(initialData)}
        \cup ({<<initialData[i], initialData[j]>> :
                 i \in 1..Len(initialData), j \in 1..Len(initialData)}
               \ {<<initialData[i], initialData[i]>> : i \in 1..Len(initialData)})

\* the host renders the grid with other data; a handler bound to a cell of
\* the former render may still run
SetData ==
    /\ \E d \in DataOptions \ {data} : data' = d
    /\ last' = Event("data", "", Row(0, "", <<>>), 0, <<>>, "", "none", FALSE)
    /\ calls' = <<>>
    /\ UNCHANGED <<disabledRows, disabledColumns, onEdit, cellErrors, cellOriginalContent,
                   focus, text, probe>>

\* the focus handler of a cell of a former render runs: the cell's row is
\* not in the data any more, and the cell is not there to be edited
StaleFocus ==
    /\ focus = <<>>
    /\ \E cell \in CellsOf(initialData) \ Cells, t \in FocusTexts :
          /\ findTableRow(data, cell.rowData) = <<>>
          /\ handleCellFocus(cell.groupKey, cell.rowData, cell.col, t)
          /\ last' = Event("focus", cell.groupKey, cell.rowData, cell.col, t, "", "none", FALSE)
    /\ UNCHANGED <<data, disabledRows, disabledColumns, onEdit, focus, text, probe>>

NextData == FocusOne \/ StaleFocus \/ Input \/ Blur \/ SetData

\* the grid of a host that supplies onEdit and disables nothing
InitData ==
    /\ Init
    /\ onEdit
    /\ disabledRows = RowsArray({})
    /\ disabledColumns = {}

\* the edit sessions of one cell while the host changes the data
SpecData == InitData /\ [][NextData]_vars

-----------------------------------------------------------------------------
(* The footer *)

\* totalRowValues[colKey]: Undefined for a key the mapping does not have
lookupTotal(totalRowValues, colKey) ==
    IF colKey \in DOMAIN totalRowValues THEN totalRowValues[colKey] ELSE Undefined

displayValue_LabelEverywhere(cellValue, index, totalRowLabel) ==
    IF cellValue # Undefined THEN cellValue
    ELSE IF totalRowLabel # <<>> THEN JSString(totalRowLabel[1])
    ELSE JSString(<<>>)

\* cellValue !== undefined ? cellValue : index === 0 ? (totalRowLabel || "") : ""
\* totalRowLabel is <<>> when the prop is not passed
displayValue(cellValue, index, totalRowLabel) ==
    IF cellValue # Undefined THEN cellValue
    ELSE IF index = 0
         THEN (IF totalRowLabel # <<>> /\ totalRowLabel[1] # <<>>
               THEN JSString(totalRowLabel[1])
               ELSE JSString(<<>>))
    ELSE JSString(<<>>)

\* the cells of the totals row: columns.map((colDef, index) => ...)
totalsRow(totalRowValues, totalRowLabel) ==
    [i \in 1..Len(columns) |->
        LET colKey == getColumnKey(columns[i])
            value  == displayValue(lookupTotal(totalRowValues, colKey), i - 1, totalRowLabel)
        IN  [colKey |-> colKey,
             value |-> value,
             applyBorder |-> (i - 1 = 0 \/ value # JSString(<<>>))]]

\* renderFooter(): <<>> is null; the props not passed are <<>>
renderFooter(totalRowValues, totalRowLabel, totalRowTitle, footerElement) ==
    IF totalRowValues = <<>> /\ footerElement = <<>> THEN <<>>
    ELSE << [title |-> IF totalRowTitle # <<>> /\ totalRowTitle[1] # "" THEN totalRowTitle
                       ELSE <<>>,
             totals |-> IF totalRowValues # <<>>
                        THEN <<totalsRow(totalRowValues[1], totalRowLabel)>>
                        ELSE <<>>,
             footerElement |-> footerElement] >>

\* the values of the totalRowValues prop: not passed, or a mapping of some of
\* the keys of the first column, of another column and of no column
TotalRowValues ==
    {<<>>}
        \cup {<<m>> : m \in UNION {[keys -> {Undefined, JSNumber(0, 0), JSString(<<>>),
                                              JSString(<<"a">>)}] :
                                     keys \in SUBSET {"materialName", "cft", "total"}}}

-----------------------------------------------------------------------------
(* The helpers applied on their own *)

\* the component as constructed, with the default props
Idle ==
    /\ data = initialData
    /\ disabledRows = RowsArray({})
    /\ disabledColumns = {}
    /\ onEdit = TRUE
    /\ cellErrors = [x \in {} |-> x]
    /\ cellOriginalContent = [x \in {} |-> x]
    /\ focus = <<>>
    /\ text = <<>>
    /\ last = NoEvent
    /\ calls = <<>>

UnchangedComponent ==
    UNCHANGED <<data, disabledRows, disabledColumns, onEdit, cellErrors,
                cellOriginalContent, focus, text, last, calls>>

\* the column definitions handed to parseAndValidate: those of the grid, the
\* amount column of the demonstration pages and a column with countSchema
ProbeColumns ==
    {columns[i] : i \in 1..Len(columns)}
        \cup {ColumnDef(<<>>, <<"amount">>, <<amountSchema>>),
              ColumnDef(<<>>, <<"count">>, <<countSchema>>)}

\* the texts handed to parseAndValidate: every text of at most MaxLen
\* characters, those of the grid, and a rate above RateMax
ProbeTexts == TextsUpTo(MaxLen) \cup Texts \cup {<<"5", "0", "0", "0", "0">>}

InitValidate ==
    /\ Idle
    /\ \E rawValue \in ProbeTexts, colDef \in ProbeColumns :
          probe = [fn |-> "parseAndValidate", rawValue |-> rawValue, colDef |-> colDef,
                   done |-> FALSE, result |-> parseAndValidate(<<>>, columns[5])]

ApplyValidate ==
    /\ ~probe.done
    /\ probe' = [probe EXCEPT !.done = TRUE,
                               !.result = parseAndValidate(probe.rawValue, probe.colDef)]
    /\ UnchangedComponent

SpecValidate == InitValidate /\ [][ApplyValidate]_vars

GroupKeys == {"Group A", "Group B", "ungrouped"}

\* the values of the disabledRows prop: undefined, every list of indices up
\* to MaxIndex, every record from headerKeys to such lists
ProbeRows ==
    {RowsUndefined}
        \cup {RowsArray(list) : list \in SUBSET (0..MaxIndex)}
        \cup UNION {{RowsRecord(map) : map \in [G -> SUBSET (0..MaxIndex)]} :
                     G \in SUBSET {"Group A", "Group B"}}

\* column definitions with and without id and accessorKey; the empty
\* string is an id or an accessorKey like any other
ColumnDefs ==
    {ColumnDef(id, accessorKey, validationSchema) :
        id \in {<<>>, <<"">>, <<"id">>, <<"cft">>, <<"rate">>, <<"total">>, <<"remarks">>},
        accessorKey \in {<<>>, <<"">>, <<"cft">>, <<"rate">>, <<"quantity">>,
                         <<"materialName">>, <<"remarks">>},
        validationSchema \in {<<>>, <<rateSchema>>}}

InitColumnKey ==
    /\ Idle
    /\ \E colDef \in ColumnDefs :
          probe = [fn |-> "getColumnKey", colDef |-> colDef, done |-> FALSE, result |-> ""]

ApplyColumnKey ==
    /\ ~probe.done
    /\ probe' = [probe EXCEPT !.done = TRUE, !.result = getColumnKey(probe.colDef)]
    /\ UnchangedComponent

\* getColumnKey applied to one column definition
SpecColumnKey == InitColumnKey /\ [][ApplyColumnKey]_vars

\* the data arrays of up to MaxRows row objects, the headerKey of a row being
\* absent, empty or the name of a group
RECURSIVE DataOfLen(_)
DataOfLen(n) ==
    IF n = 0 THEN {<<>>}
    ELSE {Append(d, Row(n, IndexToString(n), headerKey)) :
             d \in DataOfLen(n - 1),
             headerKey \in {<<>>, <<"">>, <<"Group A">>, <<"Group B">>, <<"constructor">>}}

ProbeData == UNION {DataOfLen(n) : n \in 0..MaxRows}

InitGroup ==
    /\ Idle
    /\ \E d \in ProbeData :
          probe = [fn |-> "groupedData", d |-> d, done |-> FALSE, threw |-> FALSE,
                   result |-> [g \in {} |-> <<>>]]

ApplyGroup ==
    /\ ~probe.done
    /\ probe' = [probe EXCEPT !.done = TRUE,
                               !.threw = groupedDataThrows(probe.d),
                               !.result = IF groupedDataThrows(probe.d)
                                          THEN [g \in {} |-> <<>>]
                                          ELSE groupedData(probe.d)]
    /\ UnchangedComponent

\* groupedData applied to one data array
SpecGroup == InitGroup /\ [][ApplyGroup]_vars

InitFooter ==
    /\ Idle
    /\ \E totalRowValues \in TotalRowValues, totalRowLabel \in {<<>>, << <<>> >>, << <<"a">> >>},
          totalRowTitle \in {<<>>, <<"Totals">>}, footerElement \in {<<>>, <<"footer">>} :
          probe = [fn |-> "renderFooter", totalRowValues |-> totalRowValues,
                   totalRowLabel |-> totalRowLabel, totalRowTitle |-> totalRowTitle,
                   footerElement |-> footerElement, done |-> FALSE, result |-> <<>>]

ApplyFooter ==
    /\ ~probe.done
    /\ probe' = [probe EXCEPT !.done = TRUE,
                               !.result = renderFooter(probe.totalRowValues,
                                                       probe.totalRowLabel,
                                                       probe.totalRowTitle,
                                                       probe.footerElement)]
    /\ UnchangedComponent

\* renderFooter applied to one choice of the footer props
SpecFooter == InitFooter /\ [][ApplyFooter]_vars

InitDisabled ==
    /\ Idle
    /\ \E rows \in ProbeRows, groupKey \in GroupKeys, rowIndex \in 0..MaxIndex :
          probe = [fn |-> "isRowDisabled", rows |-> rows, groupKey |-> groupKey,
                   rowIndex |-> rowIndex, done |-> FALSE, result |-> FALSE]

ApplyDisabled ==
    /\ ~probe.done
    /\ probe' = [probe EXCEPT !.done = TRUE,
                               !.result = isRowDisabled(probe.rows, probe.groupKey,
                                                        probe.rowIndex)]
    /\ UnchangedComponent

SpecDisabled == InitDisabled /\ [][ApplyDisabled]_vars

-----------------------------------------------------------------------------
(* app/add-rows/page.tsx: the host page that adds and removes rows *)

\* RowData with the id and subRows the page gives it; subRows is <<>> when
\* the property is absent, <<rows>> when it holds the array rows. An object
\* literal makes a new object: new tells the objects made by the call under
\* way from the objects of the snapshot the call was given
TreeRow(id, materialName, cft, rate, amount, subRows) ==
    [id |-> id, materialName |-> materialName, cft |-> cft, rate |-> rate,
     amount |-> amount, subRows |-> subRows, new |-> TRUE]

\* the tree as the state of the page: its objects are the objects the next
\* call is given
RECURSIVE Snapshot(_)
Snapshot(rows) ==
    [i \in 1..Len(rows) |->
        [rows[i] EXCEPT !.new = FALSE,
                        !.subRows = IF @ = <<>> THEN <<>> ELSE <<Snapshot(@[1])>>]]

\* initialData of the page
HomePageData ==
    << TreeRow("1", "Ultra Nitro Sealer", JSNumber(3, 2), JSNumber(164, 0),
               JSNumber(517, 2), <<>>),
       TreeRow("2", "NC Thinner (Spl)", JSNumber(202, 3), JSNumber(93, 0),
               JSNumber(10173, 2), <<>>),
       TreeRow("row-1", "Ultra Nitro Sealer", JSNumber(3, 2), JSNumber(164, 0),
               JSNumber(517, 2), <<>>),
       TreeRow("row-2", "NC Thinner (Spl)", JSNumber(202, 3), JSNumber(93, 0),
               JSNumber(1973, 2),
               << << TreeRow("row-2.1", "NC Thinner (Spl) 1", JSNumber(203, 3),
                             JSNumber(94, 0), JSNumber(20, 0), <<>>),
                     TreeRow("row-2.2", "NC Thinner (Spl) 2", JSNumber(204, 3),
                             JSNumber(95, 0), JSNumber(203, 1), <<>>) >> >>),
       TreeRow("row-3", "Ultra Nitro Sealer 2", JSNumber(72, 3), JSNumber(165, 0),
               JSNumber(124, 1), <<>>) >>

\* the ids nanoid() returns, in the order of the calls: strings of 21
\* characters of the URL alphabet, no two of them equal
NanoIds ==
    << "V1StGXR8_Z5jdHi6B-myT", "Uakgb_J5m9g-0JDMbcJqL", "p3Xq7Lw0ZcR_t-Y2nB8aK",
       "h9Fd2Ks_5QvT-1mWx0ZrE", "c4Nz8Jy-3GbP_6uHs7LoA", "w0Rt5Ve_9MkC-2iDq1XfS" >>

nanoid_Reused(n) == NanoIds[1]

\* nanoid(), the n-th call
nanoid(n) == NanoIds[n]

hasSubRows_Always(row) == TRUE

\* row.subRows?.length
hasSubRows(row) == row.subRows # <<>> /\ Len(row.subRows[1]) > 0

\* row.subRows ?? []
subRowsOrEmpty(row) == IF row.subRows = <<>> THEN <<>> ELSE row.subRows[1]

\* { ...row, subRows }: a new object
WithSubRows(row, subRows) == [row EXCEPT !.subRows = <<subRows>>, !.new = TRUE]

\* the number of nanoid() calls addSubRowToRow(rows, parentId) makes
RECURSIVE NanoCalls(_, _)
NanoCalls(rows, parentId) ==
    IF rows = <<>> THEN 0
    ELSE LET row == Head(rows)
         IN  (IF row.id = parentId THEN 1
              ELSE IF hasSubRows(row) THEN NanoCalls(subRowsOrEmpty(row), parentId)
              ELSE 0)
             + NanoCalls(Tail(rows), parentId)

newSubRow_First(row, id) ==
    WithSubRows(row, <<TreeRow(id, "New SubRow", JSNumber(0, 0), JSNumber(0, 0),
                               JSNumber(0, 0), <<>>)>> \o subRowsOrEmpty(row))

\* { ...row, subRows: [...(row.subRows ?? []), newSubRow] }
newSubRow(row, id) ==
    WithSubRows(row, subRowsOrEmpty(row)
                        \o <<TreeRow(id, "New SubRow", JSNumber(0, 0), JSNumber(0, 0),
                                     JSNumber(0, 0), <<>>)>>)

\* addSubRowToRow(rows, parentId), n calls of nanoid() having been made before
RECURSIVE addSubRowToRow(_, _, _)
addSubRowToRow(rows, parentId, n) ==
    IF rows = <<>> THEN <<>>
    ELSE LET row == Head(rows)
         IN  << IF row.id = parentId THEN newSubRow(row, nanoid(n + 1))
                ELSE IF hasSubRows(row)
                     THEN WithSubRows(row, addSubRowToRow(subRowsOrEmpty(row), parentId, n))
                     ELSE row >>
             \o addSubRowToRow(Tail(rows), parentId, n + NanoCalls(<<row>>, parentId))

filterOut_Splice(rows, rowId) ==
    LET found == {i \in 1..Len(rows) : rows[i].id = rowId}
        index == IF found = {} THEN Len(rows) ELSE CHOOSE i \in found : \A j \in found : i <= j
    IN  SubSeq(rows, 1, index - 1) \o SubSeq(rows, index + 1, Len(rows))

\* rows.filter((row) => row.id !== rowId)
RECURSIVE filterOut(_, _)
filterOut(rows, rowId) ==
    IF rows = <<>> THEN <<>>
    ELSE (IF Head(rows).id # rowId THEN <<Head(rows)>> ELSE <<>>)
         \o filterOut(Tail(rows), rowId)

removeRowRecursively_TopLevel(rows, rowId) == filterOut(rows, rowId)

\* removeRowRecursively(rows, rowId)
RECURSIVE removeRowRecursively(_, _)
removeRowRecursively(rows, rowId) ==
    LET kept == filterOut(rows, rowId)
    IN  [i \in 1..Len(kept) |->
            IF hasSubRows(kept[i])
            THEN WithSubRows(kept[i], removeRowRecursively(subRowsOrEmpty(kept[i]), rowId))
            ELSE kept[i]]

\* { ...row, [colKey]: newValue }: a new object
WithField(row, colKey, newValue) == [row EXCEPT ![colKey] = newValue, !.new = TRUE]

updateNestedRow_TopLevel(rows, rowId, colKey, newValue) ==
    [i \in 1..Len(rows) |->
        IF rows[i].id = rowId THEN WithField(rows[i], colKey, newValue) ELSE rows[i]]

\* updateNestedRow(rows, rowId, colKey, newValue)
RECURSIVE updateNestedRow(_, _, _, _)
updateNestedRow(rows, rowId, colKey, newValue) ==
    [i \in 1..Len(rows) |->
        IF rows[i].id = rowId THEN WithField(rows[i], colKey, newValue)
        ELSE IF hasSubRows(rows[i])
             THEN WithSubRows(rows[i], updateNestedRow(subRowsOrEmpty(rows[i]), rowId,
                                                       colKey, newValue))
             ELSE rows[i]]

\* the ids of the rows of a tree, in the order of a depth-first walk
RECURSIVE IdList(_)
IdList(rows) ==
    IF rows = <<>> THEN <<>>
    ELSE <<Head(rows).id>> \o IdList(subRowsOrEmpty(Head(rows))) \o IdList(Tail(rows))

IdSet(rows) == {IdList(rows)[i] : i \in 1..Len(IdList(rows))}

\* the state of HomePage: data (useState), the number of nanoid() calls made,
\* the ids of the rows removed so far, and the handler that ran last with its
\* argument
HomePage(d, made, removed, op, arg) ==
    [fn |-> "HomePage", data |-> d, made |-> made, removed |-> removed, op |-> op,
     arg |-> arg]

InitTree ==
    /\ Idle
    /\ probe = HomePage(Snapshot(HomePageData), 0, {}, "none", "")

\* the ids a handler of the page may be called with: those of the rows and an
\* id no row has
TreeArgs == IdSet(probe.data) \cup {"missing"}

\* const addMainRow = () => { ... setData((prev) => [...prev, newRow]) }
addMainRow ==
    /\ probe.made < MaxCreated
    /\ probe' = HomePage(Snapshot(probe.data
                           \o <<TreeRow(nanoid(probe.made + 1), "New Row", JSNumber(0, 0),
                                        JSNumber(0, 0), JSNumber(0, 0), <<>>)>>),
                         probe.made + 1, probe.removed, "addMainRow", "")
    /\ UnchangedComponent

\* setData((old) => addSubRowToRow(old, parentId))
handleAddRowFunction ==
    /\ \E parentId \in TreeArgs :
          /\ probe.made + NanoCalls(probe.data, parentId) <= MaxCreated
          /\ probe' = HomePage(Snapshot(addSubRowToRow(probe.data, parentId, probe.made)),
                               probe.made + NanoCalls(probe.data, parentId),
                               probe.removed, "addSubRow", parentId)
    /\ UnchangedComponent

\* setData((old) => removeRowRecursively(old, rowId))
handleRemoveRowFunction ==
    /\ Cardinality(probe.removed) < MaxRemoved
    /\ \E rowId \in TreeArgs :
          LET after == Snapshot(removeRowRecursively(probe.data, rowId))
          IN  probe' = HomePage(after, probe.made,
                                probe.removed \cup (IdSet(probe.data) \ IdSet(after)),
                                "removeRow", rowId)
    /\ UnchangedComponent

NextTree == addMainRow \/ handleAddRowFunction \/ handleRemoveRowFunction

\* the sessions of the page: rows are added and removed
SpecTree == InitTree /\ [][NextTree]_vars

\* the trees the functions of the page are applied to on their own: the
\* initial data, and the initial data after one removal or one addition
ProbeTrees ==
    LET first == Snapshot(HomePageData)
    IN  {first}
            \cup {Snapshot(removeRowRecursively(first, id)) : id \in IdSet(first)}
            \cup {Snapshot(addSubRowToRow(first, id, 0)) : id \in IdSet(first)}

InitTreeFn ==
    /\ Idle
    /\ \E rows \in ProbeTrees :
          \/ \E rowId \in IdSet(rows) \cup {"missing"},
                edit \in ({"materialName"} \X {"Edited", "NC Thinner (Spl)"})
                            \cup ({"cft", "rate", "amount"} \X {JSNumber(5, 0), JSNumber(0, 0)}) :
                LET colKey == edit[1]
                    value  == edit[2]
                IN
                probe = [fn |-> "handleEdit", rows |-> rows, rowId |-> rowId,
                         colKey |-> colKey, value |-> value, done |-> FALSE,
                         result |-> <<>>]
          \/ \E a \in IdSet(rows) \cup {"missing"}, b \in IdSet(rows) \cup {"missing"} :
                probe = [fn |-> "removeRowRecursively", rows |-> rows, a |-> a, b |-> b,
                         done |-> FALSE, result |-> <<>>]

\* setData((prevData) => updateNestedRow(prevData, rowId, columnId, value))
handleEdit ==
    /\ probe.fn = "handleEdit"
    /\ ~probe.done
    /\ probe' = [probe EXCEPT !.done = TRUE,
                               !.result = updateNestedRow(probe.rows, probe.rowId,
                                                          probe.colKey, probe.value)]
    /\ UnchangedComponent

\* removeRowRecursively applied once and twice: a, a then a, a then b, b then a
ApplyRemove ==
    /\ probe.fn = "removeRowRecursively"
    /\ ~probe.done
    /\ LET a == removeRowRecursively(probe.rows, probe.a)
           b == removeRowRecursively(probe.rows, probe.b)
       IN  probe' = [probe EXCEPT !.done = TRUE,
                                  !.result = [a  |-> a,
                                              aa |-> removeRowRecursively(a, probe.a),
                                              ab |-> removeRowRecursively(a, probe.b),
                                              ba |-> removeRowRecursively(b, probe.a)]]
    /\ UnchangedComponent

NextTreeFn == handleEdit \/ ApplyRemove

\* the functions of the page applied to one tree
SpecTreeFn == InitTreeFn /\ [][NextTreeFn]_vars

-----------------------------------------------------------------------------
(* Properties of the edit sessions *)

\* the row id and the column key under which the state of the event's cell
\* is stored
EventRowId(e) == findTableRow(data, e.rowData)[1].id
EventColKey(e) == getColumnKey(columns[e.col])

\* the entry of the event's cell in cellErrors / cellOriginalContent
EntryOf(state, e) == GetCell(state, e.groupKey, EventRowId(e), EventColKey(e))

\* the cell of the event is rendered editable
Editable(e) == contentEditable(e.groupKey, e.rowData, e.col)

\* the event is a blur whose text differs from the text captured at the
\* last focus of its cell
ChangedBlur(e) ==
    /\ e.op = "blur"
    /\ EntryOf(cellOriginalContent, e) # <<>>
    /\ e.text # EntryOf(cellOriginalContent, e)[1]

\* the event is a blur whose text is the text captured at the last focus of
\* its cell
UnchangedBlur(e) ==
    /\ e.op = "blur"
    /\ EntryOf(cellOriginalContent, e) = <<e.text>>

\* what the Validation Engine returns for the text of the event
Validation(e) == parseAndValidate(e.text, columns[e.col])

\* the validator of the event's column rejects the text
FailsValidation(e) == Validation(e).errorMessage # <<>>

\* C1: a blur whose text equals the text captured at the cell's most recent
\* focus invokes the commit callback zero times and leaves the CellErrorMap
\* exactly as it was, whatever happened in the cell before.
C1_UnchangedBlurIsNoOp ==
    [][UnchangedBlur(last') => (calls' = <<>> /\ cellErrors' = cellErrors)]_vars

\* an unchanged blur of an enabled cell that carries an error from an
\* earlier input, with a callback supplied
C1_Witness ==
    /\ UnchangedBlur(last)
    /\ Editable(last)
    /\ onEdit
    /\ EntryOf(cellErrors, last) # <<>>
    /\ EntryOf(cellErrors, last)[1] # <<>>
    /\ calls = <<>>

\* C2: on an enabled cell, a blur whose text differs from the captured
\* original and validates without error sets the cell's error entry to null
\* and invokes the supplied commit callback exactly once, with the cell's
\* column key and the parsed value of the Validation Engine.
C2_ValidBlurCommitsOnce ==
    [][(ChangedBlur(last') /\ Editable(last') /\ ~FailsValidation(last') /\ onEdit)
        => /\ EntryOf(cellErrors', last') = << <<>> >>
           /\ Len(calls') = 1
           /\ calls'[1].columnId = EventColKey(last')
           /\ calls'[1].value = Validation(last').parsedValue]_vars

\* a committed number: the blur of a rate cell left with the text 5
C2_Witness ==
    /\ ChangedBlur(last)
    /\ Editable(last)
    /\ EventColKey(last) = "rate"
    /\ Len(calls) = 1
    /\ calls[1].value = JSNumber(5, 0)
    /\ EntryOf(cellErrors, last) = << <<>> >>

\* C3: on an enabled cell, a blur whose text differs from the captured
\* original and fails validation invokes no commit and stores the
\* validator's message in the cell's error entry; a non-null entry becomes
\* null only by an input or a changed-text blur on that cell that validates.
C3_FailedBlurKeepsError ==
    [][/\ (ChangedBlur(last') /\ Editable(last') /\ FailsValidation(last'))
            => /\ calls' = <<>>
               /\ EntryOf(cellErrors', last') = <<Validation(last').errorMessage>>
       /\ \A g \in DOMAIN cellErrors : \A r \in DOMAIN cellErrors[g] :
            \A c \in DOMAIN cellErrors[g][r] :
               (cellErrors[g][r][c] # <<>> /\ GetCell(cellErrors', g, r, c) # <<cellErrors[g][r][c]>>)
                   => /\ last'.op \in {"input", "blur"}
                      /\ <<last'.groupKey, EventRowId(last'), EventColKey(last')>> = <<g, r, c>>
                      /\ (GetCell(cellErrors', g, r, c) = << <<>> >>
                             => ~FailsValidation(last'))]_vars

\* C4: an input event on an enabled cell replaces the cell's error entry
\* with the result of validating the text and never invokes the commit
\* callback; the callback is invoked by blur handling only.
C4_InputValidatesWithoutCommit ==
    [][/\ (last'.op = "input" /\ Editable(last'))
            => /\ EntryOf(cellErrors', last') = <<Validation(last').errorMessage>>
               /\ calls' = <<>>
       /\ calls' # <<>> => last'.op = "blur"]_vars

\* an input of a valid text, differing from the captured one, into an
\* enabled cell that carried an error, with a callback supplied
C4_Witness ==
    /\ last.op = "input"
    /\ Editable(last)
    /\ onEdit
    /\ ~FailsValidation(last)
    /\ EventColKey(last) = "rate"
    /\ EntryOf(cellOriginalContent, last) # <<last.text>>
    /\ EntryOf(cellErrors, last) = << <<>> >>
    /\ calls = <<>>

\* C5: the first argument of every commit callback invocation is the id of
\* the edited row, the row key under which the cell's error state is stored.
C5_CommitCarriesRowId ==
    \A i \in 1..Len(calls) : calls[i].rowArg = JSString(<<EventRowId(last)>>)

\* the validator of the column is z.number()...optional()
OptionalNumeric(colDef) ==
    /\ colDef.validationSchema # <<>>
    /\ colDef.validationSchema[1].typeName = "ZodOptional"
    /\ colDef.validationSchema[1].innerType[1].typeName = "ZodNumber"

\* the validator of the column is z.number()... without optional()
RequiredNumeric(colDef) ==
    /\ colDef.validationSchema # <<>>
    /\ colDef.validationSchema[1].typeName = "ZodNumber"

\* C6: for a column whose validator is an optional numeric validator,
\* parseAndValidate on empty or whitespace-only text returns parsedValue
\* undefined and errorMessage null.
C6_OptionalNumericEmptyIsAbsent ==
    (probe.done /\ OptionalNumeric(probe.colDef) /\ trim(probe.rawValue) = <<>>)
        => probe.result = [parsedValue |-> Undefined, errorMessage |-> <<>>]

\* C7: for a column whose validator is a required numeric validator, empty or
\* whitespace-only text is coerced to undefined, validation yields a non-null
\* error message, and a blur with that text, changed from the original,
\* invokes no commit.
C7_RequiredNumericEmptyNoCommit ==
    [][(/\ ChangedBlur(last')
        /\ Editable(last')
        /\ RequiredNumeric(columns[last'.col])
        /\ trim(last'.text) = <<>>)
        => /\ Validation(last').parsedValue = Undefined
           /\ Validation(last').errorMessage # <<>>
           /\ calls' = <<>>]_vars

\* C8: input and blur events on a cell that is disabled at the time of the
\* event (its row is disabled or its column key is in disabledColumns)
\* invoke no commit callback and leave the CellErrorMap unchanged, whatever
\* the text.
C8_DisabledCellIgnoresEdits ==
    [][(last'.op \in {"input", "blur"} /\ ~Editable(last'))
        => (calls' = <<>> /\ cellErrors' = cellErrors)]_vars

\* the blur of a cell of a disabled column in an enabled row, with a valid
\* text that differs from the captured one and a callback supplied
C8_Witness ==
    /\ ChangedBlur(last)
    /\ ~Editable(last)
    /\ EventColKey(last) \in disabledColumns
    /\ ~isRowDisabled(disabledRows, last.groupKey,
                      findTableRow(data, last.rowData)[1].index)
    /\ ~FailsValidation(last)
    /\ onEdit
    /\ calls = <<>>
    /\ EntryOf(cellErrors, last) = <<>>

\* C9: keydown and paste events on a disabled cell run neither keystroke
\* filtering nor paste sanitization: no key and no paste is rejected
\* (default-prevented) there, even when the column is numeric.
C9_DisabledCellRejectsNothing ==
    (last.op \in {"keydown", "paste"} /\ ~Editable(last)) => ~last.prevented

C11_GroupMapDisablesGroupPosition ==
    disabledRows.kind = "record" =>
        \A cell \in Cells :
            LET rows == groupedData(data)[cell.groupKey]
                k    == (CHOOSE i \in 1..Len(rows) : rows[i] = cell.rowData) - 1
            IN  rowDisabled(cell.groupKey, cell.rowData)
                    <=> /\ cell.groupKey \in DOMAIN disabledRows.map
                        /\ k \in disabledRows.map[cell.groupKey]

-----------------------------------------------------------------------------
(* Properties of the host page's rows *)

\* find(tree, id): the first row with the id in a depth-first walk; <<>> is
\* not-found
RECURSIVE FindRow(_, _)
FindRow(rows, id) ==
    IF rows = <<>> THEN <<>>
    ELSE IF Head(rows).id = id THEN <<Head(rows)>>
    ELSE LET below == FindRow(subRowsOrEmpty(Head(rows)), id)
         IN  IF below # <<>> THEN below ELSE FindRow(Tail(rows), id)

\* the children of the row with the id
Children(rows, id) == subRowsOrEmpty(FindRow(rows, id)[1])

\* the ids of the row with the id and of every row below it
SubtreeIds(rows, id) ==
    IF FindRow(rows, id) = <<>> THEN {} ELSE IdSet(FindRow(rows, id))

\* the rows of a tree in the order of a depth-first walk, each with its
\* fields and the id of its parent (<<>> for a main row)
RECURSIVE Flatten(_, _)
Flatten(rows, parent) ==
    IF rows = <<>> THEN <<>>
    ELSE LET row == Head(rows)
         IN  <<[id |-> row.id, materialName |-> row.materialName, cft |-> row.cft,
                rate |-> row.rate, amount |-> row.amount, parent |-> parent]>>
             \o Flatten(subRowsOrEmpty(row), <<row.id>>)
             \o Flatten(Tail(rows), parent)

\* no two rows of the tree have the same id
DistinctIds(rows) == Cardinality(IdSet(rows)) = Len(IdList(rows))

\* C12: removeRow(tree, id), for an id present at any nesting level, returns
\* a tree in which no row has that id; the rows of the removed row's subtree
\* are gone, and every other row is still there with its fields, its parent
\* and its place in the order.
C12_RemoveRowRemovesSubtree ==
    [][(probe'.op = "removeRow" /\ probe'.arg \in IdSet(probe.data))
        => LET Outside(n) == n.id \notin SubtreeIds(probe.data, probe'.arg)
           IN  /\ probe'.arg \notin IdSet(probe'.data)
               /\ FindRow(probe'.data, probe'.arg) = <<>>
               /\ Flatten(probe'.data, <<>>) = SelectSeq(Flatten(probe.data, <<>>), Outside)]_vars

\* the removal of row-2, a main row with sub-rows, from a tree that keeps
\* the rows around it
C12_Witness ==
    /\ probe.op = "removeRow"
    /\ probe.arg = "row-2"
    /\ IdSet(probe.data) \cap {"row-2", "row-2.1", "row-2.2"} = {}
    /\ {"row-1", "row-3"} \subseteq IdSet(probe.data)

\* C13: addSubRow(tree, parentId), for a parentId present at any nesting
\* level, gives the row with that id exactly one more child, appended after
\* the children it had, whose id is the id of no row of the input tree; when
\* it is applied twice in a row to the same parent, the two new children have
\* distinct ids and both are found in the result.
C13_AddSubRowAppendsFreshChild ==
    [][(probe'.op = "addSubRow" /\ probe'.arg \in IdSet(probe.data))
        => LET before == Children(probe.data, probe'.arg)
               after  == Children(probe'.data, probe'.arg)
               n      == Len(after)
           IN  /\ n = Len(before) + 1
               /\ SubSeq(after, 1, n - 1) = before
               /\ after[n].id \notin IdSet(probe.data)
               /\ FindRow(probe'.data, after[n].id) = <<after[n]>>
               /\ (probe.op = "addSubRow" /\ probe.arg = probe'.arg /\ n >= 2)
                     => /\ after[n - 1].id # after[n].id
                        /\ FindRow(probe'.data, after[n - 1].id) = <<after[n - 1]>>]_vars

\* two sub-rows added to row-2.1, a nested row that had none
C13_Witness ==
    /\ probe.op = "addSubRow"
    /\ probe.arg = "row-2.1"
    /\ FindRow(probe.data, "row-2.1") # <<>>
    /\ Len(Children(probe.data, "row-2.1")) = 2
    /\ Children(probe.data, "row-2.1")[1].id = nanoid(1)
    /\ Children(probe.data, "row-2.1")[2].id = nanoid(2)

\* C14: after any sequence of add-main-row, addSubRow and removeRow the ids
\* of the tree are pairwise distinct across all nesting levels, and no row
\* of the tree has an id that was removed earlier.
C14_IdsDistinctNeverReused ==
    /\ DistinctIds(probe.data)
    /\ IdSet(probe.data) \cap probe.removed = {}

\* a main row created after the removal of a row the page had created
C14_Witness ==
    /\ probe.op = "addMainRow"
    /\ nanoid(1) \in probe.removed
    /\ nanoid(2) \in IdSet(probe.data)

\* C15: addSubRow with a parentId, and removeRow with a targetId, that is the
\* id of no row of the tree return a tree equal to the input tree.
C15_AbsentIdIsNoOp ==
    [][(probe'.op \in {"addSubRow", "removeRow"} /\ probe'.arg \notin IdSet(probe.data))
        => probe'.data = probe.data]_vars

\* addSubRow with an id no row has, on a tree that holds a created sub-row
\* and a row whose sub-rows were all removed
C15_Witness ==
    /\ probe.op = "addSubRow"
    /\ probe.arg = "missing"
    /\ probe.made = 1
    /\ FindRow(probe.data, "row-2") # <<>>
    /\ FindRow(probe.data, "row-2")[1].subRows = << <<>> >>
    /\ nanoid(1) \in IdSet(probe.data)

-----------------------------------------------------------------------------
(* Properties of the Validation Engine and of the keystroke filter *)

\* the column is numeric: its validator is z.number()..., optional or not
Numeric(colDef) == RequiredNumeric(colDef) \/ OptionalNumeric(colDef)

\* C16: parseAndValidate on a numeric column coerces empty or whitespace-only
\* text to undefined, non-empty text that parses as a number to that number,
\* and passes non-empty text that does not parse unchanged; the validator is
\* applied to the coerced value, and the coerced value is the parsedValue
\* returned.
C16_NumericCoercion ==
    (probe.done /\ Numeric(probe.colDef))
        => LET raw     == probe.rawValue
               coerced == IF trim(raw) = <<>> THEN Undefined
                          ELSE IF parseFloat(raw) = NaN THEN JSString(raw)
                          ELSE parseFloat(raw)
               issues  == safeParse(probe.colDef.validationSchema[1], coerced)
           IN  /\ probe.result.parsedValue = coerced
               /\ probe.result.errorMessage
                      = IF issues = <<>> THEN <<>> ELSE <<issues[1]>>

\* C17: on a column with no validator parseAndValidate returns the raw text
\* itself as parsedValue and null as errorMessage, for every raw text, so a
\* changed-text blur on an enabled cell of such a column commits the raw text.
C17_NoValidatorCommitsRawText ==
    [][(/\ ChangedBlur(last')
        /\ Editable(last')
        /\ columns[last'.col].validationSchema = <<>>)
        => /\ \A t \in TextsUpTo(MaxLen) \cup {last'.text} :
                 LET r == parseAndValidate(t, columns[last'.col])
                 IN  /\ r.parsedValue.type = "string"
                     /\ r.parsedValue.str = t
                     /\ r.errorMessage = <<>>
           /\ onEdit => /\ Len(calls') = 1
                        /\ calls'[1].columnId = EventColKey(last')
                        /\ calls'[1].value.type = "string"
                        /\ calls'[1].value.str = last'.text]_vars

\* a blank typed into an empty remarks cell is committed as it is
C17_Witness ==
    /\ ChangedBlur(last)
    /\ Editable(last)
    /\ EventColKey(last) = "remarks"
    /\ last.text = <<" ">>
    /\ Len(calls) = 1
    /\ calls[1].value.str = <<" ">>

\* C18: when the validator reports several issues, the errorMessage of
\* parseAndValidate is exactly the message of the first issue reported; it is
\* null iff the validator reports success.
C18_FirstIssueWins ==
    (probe.done /\ probe.colDef.validationSchema # <<>>)
        => LET issues == safeParse(probe.colDef.validationSchema[1],
                                   probe.result.parsedValue)
           IN  /\ (probe.result.errorMessage = <<>>) <=> (issues = <<>>)
               /\ issues # <<>> => probe.result.errorMessage = <<Head(issues)>>

\* -.5 in a count column: not whole and negative, two issues
C18_Witness ==
    /\ probe.done
    /\ getColumnKey(probe.colDef) = "count"
    /\ probe.rawValue = <<"-", ".", "5">>
    /\ Len(safeParse(countSchema, probe.result.parsedValue)) = 2
    /\ probe.result.errorMessage = <<"Count must be a whole number.">>

\* Ctrl or Meta is held and the key is a, c, x, z or v in either letter case
Accelerator(e) ==
    /\ e.mod \in {"ctrl", "meta"}
    /\ e.key \in {"a", "A", "c", "C", "x", "X", "z", "Z", "v", "V"}

\* C19: on a numeric column a keystroke without a Ctrl/Meta accelerator is
\* rejected iff its key is not a single digit, not the decimal point, not the
\* minus sign and not one of Delete, Backspace, the arrow keys, Tab, Home, End.
C19_NumericKeystrokeFilter ==
    (last.op = "keydown" /\ Numeric(columns[last.col]) /\ ~Accelerator(last))
        => (last.prevented
               <=> last.key \notin Digits \cup {".", "-", "Delete", "Backspace", "ArrowLeft",
                                               "ArrowRight", "ArrowUp", "ArrowDown", "Tab",
                                               "Home", "End"})

\* C20: a keystroke with Ctrl or Meta held and the key a, c, x, z or v, in
\* either letter case, is never rejected, on any column.
C20_AcceleratorsPass ==
    (last.op = "keydown" /\ Accelerator(last)) => ~last.prevented

\* Meta+V on an editable rate cell, whose filter rejects the key V
C20_Witness ==
    /\ last.op = "keydown"
    /\ last.mod = "meta"
    /\ last.key = "V"
    /\ EventColKey(last) = "rate"
    /\ Editable(last)
    /\ handleKeyDown(last.key, columns[last.col])
    /\ ~last.prevented

\* the text is an optional minus sign, digits, at most one decimal point,
\* digits (each run of digits may be empty)
SignedDecimal(t) ==
    \E i \in 0..1, j \in 0..Len(t), k \in 0..1 :
        /\ i + j + k <= Len(t)
        /\ i = 1 => t[1] = "-"
        /\ \A n \in (i + 1)..(i + j) : t[n] \in Digits
        /\ k = 1 => t[i + j + 1] = "."
        /\ \A n \in (i + j + k + 1)..Len(t) : t[n] \in Digits

\* C21: on a numeric column a paste is rejected iff the clipboard text does
\* not match the signed-decimal pattern; on a non-numeric column no paste is
\* rejected.
C21_PasteFilter ==
    last.op = "paste"
        => (last.prevented
               <=> (Numeric(columns[last.col]) /\ ~SignedDecimal(last.text)))

\* C22: keydown and paste handling, whether the key or the paste is accepted
\* or rejected, invokes no commit callback and changes neither the
\* CellErrorMap nor the original-content map; a rejected paste records no
\* validation error.
C22_KeysAndPastesChangeNothing ==
    [][last'.op \in {"keydown", "paste"}
        => /\ calls' = <<>>
           /\ cellErrors' = cellErrors
           /\ cellOriginalContent' = cellOriginalContent]_vars

\* a paste rejected on an editable rate cell that carries no error entry
C22_Witness ==
    /\ last.op = "paste"
    /\ last.prevented
    /\ EventColKey(last) = "rate"
    /\ Editable(last)
    /\ EntryOf(cellOriginalContent, last) # <<>>
    /\ EntryOf(cellErrors, last) = <<>>
    /\ calls = <<>>

\* the validator the column declares has the declared type number
DeclaresNumber(colDef) ==
    /\ colDef.validationSchema # <<>>
    /\ \/ colDef.validationSchema[1].typeName = "ZodNumber"
       \/ /\ colDef.validationSchema[1].typeName = "ZodOptional"
          /\ colDef.validationSchema[1].innerType[1].typeName = "ZodNumber"

\* C30: a column is treated as numeric only if it declares a validator whose
\* declared type is number: on a column with no validator or with a
\* non-numeric validator no key and no paste is rejected, and the raw text
\* goes to the validator (and comes back as parsedValue) uncoerced.
C30_NumericOnlyIfDeclared ==
    (last.op # "none" /\ ~DeclaresNumber(columns[last.col])) =>
        /\ last.op \in {"keydown", "paste"} => ~last.prevented
        /\ last.op \in {"input", "blur"} =>
              /\ Validation(last).parsedValue.type = "string"
              /\ Validation(last).parsedValue.str = last.text

\* the key a, which the filter of a numeric column rejects, goes down
\* unmodified in a materialName cell, whose validator is z.string()
C30_Witness ==
    /\ last.op = "keydown"
    /\ last.key = "a"
    /\ last.mod = "none"
    /\ EventColKey(last) = "materialName"
    /\ ~last.prevented

-----------------------------------------------------------------------------
(* Properties of the cells among each other *)

\* the (groupKey, rowId, colKey) triples that have an entry in a state map
KeysOf(state) ==
    UNION {UNION {{<<g, r, c>> : c \in DOMAIN state[g][r]} : r \in DOMAIN state[g]} :
           g \in DOMAIN state}

\* the triple under which the state of the event's cell is stored
EventKey(e) == <<e.groupKey, EventRowId(e), EventColKey(e)>>

\* the cells other than the event's cell that hold a non-null error
OtherErrors(state, e) ==
    {k \in KeysOf(state) : k # EventKey(e) /\ state[k[1]][k[2]][k[3]] # <<>>}

\* C23: a focus, input or blur event on one cell leaves the error entry and
\* the captured original text of every other cell unchanged, in every order
\* in which the edit sessions of different cells follow each other.
C23_OtherCellsUntouched ==
    [][(/\ last'.op \in {"focus", "input", "blur"}
        /\ (cellErrors' # cellErrors \/ cellOriginalContent' # cellOriginalContent))
        => \A k \in KeysOf(cellErrors) \cup KeysOf(cellErrors')
                     \cup KeysOf(cellOriginalContent) \cup KeysOf(cellOriginalContent') :
              k # EventKey(last')
                  => /\ GetCell(cellErrors', k[1], k[2], k[3])
                            = GetCell(cellErrors, k[1], k[2], k[3])
                     /\ GetCell(cellOriginalContent', k[1], k[2], k[3])
                            = GetCell(cellOriginalContent, k[1], k[2], k[3])]_vars

\* an input that records an error in one cell of a row while another cell of
\* the same row keeps its own error and its captured original text
C23_Witness ==
    /\ last.op = "input"
    /\ EntryOf(cellErrors, last) # <<>>
    /\ EntryOf(cellErrors, last)[1] # <<>>
    /\ \E k \in OtherErrors(cellErrors, last) :
          /\ k[1] = last.groupKey
          /\ k[2] = EventRowId(last)
          /\ GetCell(cellOriginalContent, k[1], k[2], k[3]) # <<>>

\* C24: while another cell holds a non-null error, a changed-text blur on an
\* enabled cell whose text validates still commits, exactly once and with
\* its own column key and parsed value: the errors of other cells never keep
\* a cell from committing.
C24_OtherErrorsNeverBlock ==
    [][(/\ ChangedBlur(last')
        /\ Editable(last')
        /\ ~FailsValidation(last')
        /\ onEdit
        /\ OtherErrors(cellErrors, last') # {})
        => /\ Len(calls') = 1
           /\ calls'[1].columnId = EventColKey(last')
           /\ calls'[1].value = Validation(last').parsedValue
           /\ OtherErrors(cellErrors', last') = OtherErrors(cellErrors, last')]_vars

\* the rate 5 is committed while the materialName cell of the same row
\* holds its error
C24_Witness ==
    /\ ChangedBlur(last)
    /\ Editable(last)
    /\ EventColKey(last) = "rate"
    /\ Len(calls) = 1
    /\ calls[1].value = JSNumber(5, 0)
    /\ <<last.groupKey, EventRowId(last), "materialName">> \in OtherErrors(cellErrors, last)

-----------------------------------------------------------------------------
(* Properties of the grid under changing data *)

\* errorMsg of the rendered cell: cellErrors[groupKey]?.[rowId]?.[colKey] || null
\* for the record row in the render of the data d; <<>> is null
ErrorShown(d, errors, row, col) ==
    LET entry == GetCell(errors, groupOf(row), findTableRow(d, row)[1].id,
                         getColumnKey(columns[col]))
    IN  IF entry = <<>> THEN <<>>
        ELSE IF Truthy(entry[1]) THEN entry[1]
        ELSE <<>>

\* the handler of the event ran for a row that is not in the data
RowMissing(e) == \A i \in 1..Len(data) : data[i] # e.rowData

\* C25: when the row of a cell is not found in the current data as its focus,
\* input or blur is handled, the handler does nothing: no commit callback,
\* no change of the CellErrorMap, no change of the original-content map.
C25_MissingRowIsNoOp ==
    [][(last'.op \in {"focus", "input", "blur"} /\ RowMissing(last'))
        => /\ calls' = <<>>
           /\ cellErrors' = cellErrors
           /\ cellOriginalContent' = cellOriginalContent]_vars

\* the first record is removed between the focus and the blur of its rate
\* cell, left with the valid text 5 typed over the empty original
C25_Witness ==
    /\ last.op = "blur"
    /\ RowMissing(last)
    /\ last.rowData = initialData[1]
    /\ getColumnKey(columns[last.col]) = "rate"
    /\ last.text = <<"5">>
    /\ GetCell(cellOriginalContent, "Group A", "0", "rate") = << <<>> >>
    /\ onEdit
    /\ calls = <<>>

\* C26: the error shown for a data record is still the error shown for that
\* record after the host supplies the data in another order or with another
\* row removed.
C26_ErrorFollowsRecord ==
    [][last'.op = "data"
        => \A i \in 1..Len(data), col \in 1..Len(columns) :
              (\E j \in 1..Len(data') : data'[j] = data[i])
                  => ErrorShown(data', cellErrors', data[i], col)
                         = ErrorShown(data, cellErrors, data[i], col)]_vars

-----------------------------------------------------------------------------
(* Properties of the rendering helpers *)

\* C27: getColumnKey returns the column's id when the column has one,
\* otherwise its accessorKey when it has one, otherwise the empty string;
\* the accessorKey is never the answer for a column that has an id.
C27_ColumnKeyPrefersId ==
    probe.done
        => LET colDef == probe.colDef
           IN  /\ colDef.id # <<>> => probe.result = colDef.id[1]
               /\ colDef.id = <<>> /\ colDef.accessorKey # <<>>
                      => probe.result = colDef.accessorKey[1]
               /\ colDef.id = <<>> /\ colDef.accessorKey = <<>> => probe.result = ""

\* a column with the id "id" and the accessorKey "cft" has the key "id"
C27_Witness ==
    /\ probe.done
    /\ probe.colDef.id = <<"id">>
    /\ probe.colDef.accessorKey = <<"cft">>
    /\ probe.result = "id"

\* the places <<group, position>> at which the row occupies the grouping
PlacesOf(grouped, row) ==
    UNION {{<<g, j>> : j \in {k \in 1..Len(grouped[g]) : grouped[g][k] = row}} :
           g \in DOMAIN grouped}

\* C28: the grouping partitions the rows of the data: every row is in exactly
\* one group, once; a row without headerKey is in the group "ungrouped"; the
\* rows of a group are rows of the data, in the order they have in the data.
C28_GroupingPartitions ==
    probe.done
        => LET PositionIn(d, row) == CHOOSE i \in 1..Len(d) : d[i] = row
           IN
           /\ ~probe.threw
           /\ \A i \in 1..Len(probe.d) :
                 /\ Cardinality(PlacesOf(probe.result, probe.d[i])) = 1
                 /\ probe.d[i].headerKey = <<>>
                        => \E p \in PlacesOf(probe.result, probe.d[i]) : p[1] = "ungrouped"
           /\ \A g \in DOMAIN probe.result :
                 /\ \A j \in 1..Len(probe.result[g]) :
                       \E i \in 1..Len(probe.d) : probe.d[i] = probe.result[g][j]
                 /\ \A j, k \in 1..Len(probe.result[g]) :
                       j < k => PositionIn(probe.d, probe.result[g][j])
                                    < PositionIn(probe.d, probe.result[g][k])

\* the mapping of the footer props has a value for the key
TotalDefined(totalRowValues, colKey) ==
    /\ colKey \in DOMAIN totalRowValues
    /\ totalRowValues[colKey] # Undefined

-----------------------------------------------------------------------------
(* Properties of the host page's tree functions *)

\* the row objects of a tree, at all levels
RECURSIVE AllRows(_)
AllRows(rows) ==
    IF rows = <<>> THEN {}
    ELSE {Head(rows)} \cup AllRows(subRowsOrEmpty(Head(rows))) \cup AllRows(Tail(rows))

\* the ids of the rows that have the row with the id somewhere below them
RECURSIVE PathIds(_, _)
PathIds(rows, id) ==
    IF rows = <<>> THEN {}
    ELSE LET subRows == subRowsOrEmpty(Head(rows))
             below   == PathIds(subRows, id)
         IN  (IF below # {} \/ \E i \in 1..Len(subRows) : subRows[i].id = id
              THEN {Head(rows).id} \cup below
              ELSE {})
             \cup PathIds(Tail(rows), id)

\* what the call of the step returns, before it becomes the state of the page
CallResult(before, op, arg, made) ==
    IF op = "addSubRow" THEN addSubRowToRow(before, arg, made)
    ELSE removeRowRecursively(before, arg)

\* the rows the call changes or has to copy: the ancestors of the row with
\* the id and, for addSubRow, the row itself
ChangedPath(before, op, arg) ==
    PathIds(before, arg)
        \cup (IF op = "addSubRow" /\ FindRow(before, arg) # <<>> THEN {arg} ELSE {})

-----------------------------------------------------------------------------
(* Properties of the two state maps *)

C33_OriginalDiscardedOnBlur ==
    [][last'.op = "blur" => EntryOf(cellOriginalContent', last') = <<>>]_vars

\* the map new is the map old with the entry of the key written: the groups,
\* rows and columns beside the key's are those of old, with their contents
OnlyEntryDiffers(old, new, key) ==
    /\ DOMAIN new = DOMAIN old \cup {key[1]}
    /\ \A g \in DOMAIN new \ {key[1]} : new[g] = old[g]
    /\ LET oldGroup == OrEmpty(old, key[1])
           newGroup == new[key[1]]
       IN  /\ DOMAIN newGroup = DOMAIN oldGroup \cup {key[2]}
           /\ \A r \in DOMAIN newGroup \ {key[2]} : newGroup[r] = oldGroup[r]
           /\ LET oldRow == OrEmpty(oldGroup, key[2])
                  newRow == newGroup[key[2]]
              IN  /\ DOMAIN newRow = DOMAIN oldRow \cup {key[3]}
                  /\ \A c \in DOMAIN newRow \ {key[3]} : newRow[c] = oldRow[c]

-----------------------------------------------------------------------------
(* Properties of what the host sees *)

C36_CommitsOnlyAcceptedValues ==
    [][(/\ last'.op = "blur"
        /\ calls' # <<>>
        /\ columns[last'.col].validationSchema # <<>>)
        => \A i \in 1..Len(calls') :
              safeParse(columns[last'.col].validationSchema[1], calls'[i].value) = <<>>]_vars

\* C37: a blur on an enabled cell under whose key no original text is stored
\* compares the text with the empty string: with the empty text it does
\* nothing; with another text it stores the result of the validation and
\* commits as a changed-text blur does, once and with the parsed value when
\* the text validates, not at all when the validator reports a message.
C37_BlurWithoutCapture ==
    [][(/\ last'.op = "blur"
        /\ ~RowMissing(last')
        /\ Editable(last')
        /\ EntryOf(cellOriginalContent, last') = <<>>)
        => IF last'.text = <<>>
           THEN calls' = <<>> /\ cellErrors' = cellErrors
           ELSE LET result == Validation(last')
                IN  /\ EntryOf(cellErrors', last') = <<result.errorMessage>>
                    /\ Truthy(result.errorMessage) => calls' = <<>>
                    /\ (result.errorMessage = <<>> /\ onEdit)
                          => /\ Len(calls') = 1
                             /\ calls'[1].columnId = EventColKey(last')
                             /\ calls'[1].value = result.parsedValue]_vars

\* the rate 5 is committed by the blur of a cell whose key, after the host
\* supplied the data in another order, has no original text stored
C37_Witness ==
    /\ last.op = "blur"
    /\ ~RowMissing(last)
    /\ EntryOf(cellOriginalContent, last) = <<>>
    /\ last.text = <<"5">>
    /\ EventColKey(last) = "rate"
    /\ Len(calls) = 1

\* C38: on a numeric column a text that begins with a well-formed number and
\* goes on with further characters (a second minus sign, a second point) is
\* coerced to the number of that prefix: a changed-text blur with such a text
\* commits the prefix number when the validator accepts it.
C38_PrefixNumberCommitted ==
    [][(/\ ChangedBlur(last')
        /\ Editable(last')
        /\ onEdit
        /\ Numeric(columns[last'.col])
        /\ parseFloat(last'.text) # NaN
        /\ ~SignedDecimal(last'.text)
        /\ safeParse(columns[last'.col].validationSchema[1], parseFloat(last'.text)) = <<>>)
        => /\ Len(calls') = 1
           /\ calls'[1].columnId = EventColKey(last')
           /\ calls'[1].value = parseFloat(last'.text)]_vars

-----------------------------------------------------------------------------
(* Properties of the page's functions applied on their own *)

\* C39: removeRow is idempotent and independent of the order: removing a
\* twice gives the tree that removing a once gives, and removing a then b
\* gives the tree that removing b then a gives.
C39_RemoveIdempotentCommutes ==
    (probe.fn = "removeRowRecursively" /\ probe.done)
        => /\ Snapshot(probe.result.aa) = Snapshot(probe.result.a)
           /\ Snapshot(probe.result.ab) = Snapshot(probe.result.ba)

\* row-2.1 and row-2.2, the two sub-rows of row-2, removed one after the
\* other from the initial data: row-2 is left with an empty list of sub-rows
C39_Witness ==
    /\ probe.fn = "removeRowRecursively"
    /\ probe.done
    /\ probe.rows = Snapshot(HomePageData)
    /\ probe.a = "row-2.1"
    /\ probe.b = "row-2.2"
    /\ Children(probe.result.ab, "row-2") = <<>>
    /\ FindRow(probe.result.ba, "row-2") # <<>>
    /\ FindRow(probe.result.a, "row-2.2") # <<>>

\* C40: updateNestedRow(rows, rowId, colKey, value) changes the field colKey
\* of the row with the id rowId, at any level, and nothing else: the other
\* fields, the other rows and the shape of the tree are as before; with an
\* id no row has the tree is as before.
C40_UpdateChangesOneField ==
    (probe.fn = "handleEdit" /\ probe.done)
        => LET before == Flatten(probe.rows, <<>>)
               after  == Flatten(probe.result, <<>>)
           IN  /\ Len(after) = Len(before)
               /\ \A i \in 1..Len(before) :
                     after[i] = IF before[i].id = probe.rowId
                                THEN [before[i] EXCEPT ![probe.colKey] = probe.value]
                                ELSE before[i]
               /\ \A row \in AllRows(probe.rows) :
                     (row.subRows = <<>>) = (FindRow(probe.result, row.id)[1].subRows = <<>>)
               /\ probe.rowId \notin IdSet(probe.rows) => Snapshot(probe.result) = probe.rows

\* the rate of the nested row row-2.2 set to 5
C40_Witness ==
    /\ probe.fn = "handleEdit"
    /\ probe.done
    /\ probe.rowId = "row-2.2"
    /\ probe.colKey = "rate"
    /\ FindRow(probe.rows, "row-2.2")[1].rate = JSNumber(95, 0)
    /\ FindRow(probe.result, "row-2.2")[1].rate = JSNumber(5, 0)

=============================================================================
